---- MODULE Spec2Model ----
(***************************************************************************)
(* Model of the intothreshlantern enrichment core:                         *)
(*   itl/datastruct.py  SummonerInformation (write-once slots), Composition *)
(*   itl/scraper.py     GGScraper.inform (fan-out over a thread pool,      *)
(*                      fan-in with as_completed, aggregate boolean)       *)
(*                                                                         *)
(* Python values are modelled as records [kind, items]:                    *)
(*   kind = "absent"  an unset __slots__ attribute (hasattr is False)      *)
(*   kind = "None"    the None object (not iterable)                       *)
(*   kind = "list"    a list, items are its elements                       *)
(*   kind = "str"     a string; iterating it yields str elements           *)
(* Elements are records [type, champion, role]; type = "ChampionSummary"   *)
(* for a ChampionSummary tuple and "str" for anything else.                *)
(***************************************************************************)
EXTENDS Integers, Sequences, FiniteSets, TLC

VARIABLES
    team,          \* the Composition: slot -> SummonerInformation
    max_workers,   \* GGScraper.max_workers of the scraper in use
    pc,            \* position of the thread that called inform
    nsub,          \* number of executor.submit calls made so far
    fut,           \* the ten futures, in submission order
    yielded,       \* futures as_completed has handed to the loop body
    exc,           \* exception in flight in the calling thread
    outcome,       \* how inform ended: return value or raised exception
    info,          \* a stand-alone SummonerInformation (record-layer runs)
    call,          \* the last call made on info (or on an entity of team)
    writers,       \* two threads, each inside one __setattr__ call on info
    df,            \* GGScraper._df: whether it is set, and the loads so far
    readers        \* pool threads evaluating the df property

vars ==
    <<team, max_workers, pc, nsub, fut, yielded, exc, outcome, info, call,
      writers, df, readers>>

\* what the runs of inform leave alone
auxVars == <<writers, df, readers>>

enrichVars == <<team, max_workers, pc, nsub, fut, yielded, exc, outcome>>

(***************************************************************************)
(* Bounds of the model.                                                    *)
(***************************************************************************)
\* largest number of remote calls that fail in one inform run
MaxFailures == 1

\* max_workers ranges over 1..MaxWorkers
MaxWorkers == 2

\* longest list handed to __setattr__ in the record-layer runs
MaxItems == 2

\* evaluations of the df property made by one pool thread
MaxLookups == 8

(***************************************************************************)
(* Python values.                                                          *)
(***************************************************************************)
Absent == [kind |-> "absent", items |-> <<>>]

NoneV == [kind |-> "None", items |-> <<>>]

ListV(s) == [kind |-> "list", items |-> s]

ChampionSummary(champion, role) ==
    [type |-> "ChampionSummary", champion |-> champion, role |-> role]

StrItem(s) == [type |-> "str", champion |-> s, role |-> ""]

StrV(s) == [kind |-> "str", items |-> <<StrItem(s)>>]

\* iter(value) raises TypeError for a value that is not iterable
Iterable(value) == value.kind \in {"list", "str"}

(***************************************************************************)
(* datastruct.py: SummonerInformation                                      *)
(***************************************************************************)
Slots == {"region", "name", "champion_pool", "matchup_pool"}

Pools == {"champion_pool", "matchup_pool"}

\* an object whose __slots__ are all unset, as __init__ receives it
BlankInfo == [a \in Slots |-> Absent]

\* variant: an empty value is taken for an unset slot
hasattr_truthy(obj, attr) == obj[attr].kind # "absent" /\ obj[attr].items # <<>>

hasattr(obj, attr) == obj[attr].kind # "absent"

\* variant: any(...) in place of all(...)
SummaryCheck_any(value) ==
    IF ~Iterable(value) THEN FALSE
    ELSE \E i \in 1..Len(value.items) : value.items[i].type = "ChampionSummary"

\* all(isinstance(stats, ChampionSummary) for stats in value), False when
\* the evaluation raises
SummaryCheck(value) ==
    IF ~Iterable(value) THEN FALSE
    ELSE \A i \in 1..Len(value.items) : value.items[i].type = "ChampionSummary"

\* variant: only the pools are protected against reassignment
SetAttr_pools_only(obj, attr, value) ==
    IF attr \in Pools /\ hasattr(obj, attr)
    THEN [exc |-> "TypeError", obj |-> obj]
    ELSE IF attr \in Pools /\ ~SummaryCheck(value)
    THEN [exc |-> "TypeError", obj |-> obj]
    ELSE [exc |-> "none", obj |-> [obj EXCEPT ![attr] = value]]

\* variant: no refusal of a slot that is already set
SetAttr_overwrite(obj, attr, value) ==
    IF attr \in Pools /\ ~SummaryCheck(value)
    THEN [exc |-> "TypeError", obj |-> obj]
    ELSE [exc |-> "none", obj |-> [obj EXCEPT ![attr] = value]]

\* variant: no content check on the pools
SetAttr_unchecked(obj, attr, value) ==
    IF hasattr(obj, attr)
    THEN [exc |-> "TypeError", obj |-> obj]
    ELSE [exc |-> "none", obj |-> [obj EXCEPT ![attr] = value]]

\* SummonerInformation.__setattr__: the exception it raises ("none" when it
\* stores) and the object afterwards
SetAttr(obj, attr, value) ==
    IF hasattr(obj, attr)
    THEN [exc |-> "TypeError", obj |-> obj]
    ELSE IF attr \in Pools /\ ~SummaryCheck(value)
    THEN [exc |-> "TypeError", obj |-> obj]
    ELSE [exc |-> "none", obj |-> [obj EXCEPT ![attr] = value]]

\* SummonerInformation.__init__(region, name)
NewInfo(region, name) ==
    SetAttr(SetAttr(BlankInfo, "region", StrV(region)).obj, "name", StrV(name)).obj

\* reading an attribute: AttributeError on an unset slot
\* SummonerInformation.__bool__: "True", "False" or "AttributeError"
InfoBool(obj) ==
    IF ~hasattr(obj, "champion_pool") THEN "AttributeError"
    ELSE IF obj["champion_pool"].kind = "None" THEN "False"
    ELSE IF ~hasattr(obj, "matchup_pool") THEN "AttributeError"
    ELSE IF obj["matchup_pool"].kind = "None" THEN "False"
    ELSE "True"

(***************************************************************************)
(* datastruct.py: Composition                                              *)
(***************************************************************************)
\* Composition.__iter__ order
RoleOrder == <<"top", "jungle", "mid", "adc", "support">>

Roles == {RoleOrder[i] : i \in 1..Len(RoleOrder)}

\* main.py: Composition('NA', 'kal1brate', 'Fizsie', ...)
AllyNames ==
    [top |-> "kal1brate", jungle |-> "Fizsie", mid |-> "thef1tnessgram",
     adc |-> "AmbientSolace", support |-> "imwangingrn"]

\* Composition.__init__
NewComposition(region, names) == [r \in Roles |-> NewInfo(region, names[r])]

\* all(info for info in team): stops at the first False, propagates the
\* first exception
RECURSIVE AllFrom(_, _)
AllFrom(t, i) ==
    IF i > Len(RoleOrder) THEN "True"
    ELSE LET b == InfoBool(t[RoleOrder[i]])
         IN IF b = "True" THEN AllFrom(t, i + 1) ELSE b

AllInfo(t) == AllFrom(t, 1)

(***************************************************************************)
(* scraper.py: the remote data source behind _get_pool.  The remote is an  *)
(* external service; RemoteRows is a deterministic fixture for it whose    *)
(* answer depends on the request, so that the answers to the ten requests  *)
(* of one inform run are pairwise different.                               *)
(***************************************************************************)
\* GGScraper.df: champion id -> name
ChampionTable == <<"Aatrox", "Ahri", "Akali">>

from_id(riot_id) == ChampionTable[riot_id]

\* mode variable of the request, derived from the operation
ModeOf(operation) ==
    IF operation = "LolProfilePageChampionsPoolQuery" THEN "Best" ELSE "Worst"

\* the 'items' of the remote's response to one request
RemoteRows(mode, summoner, region, role) ==
    IF mode = "Best"
    THEN <<[championId |-> 1, role |-> role], [championId |-> 3, role |-> role]>>
    ELSE IF role = "SUPPORT"
    THEN <<>>
    ELSE <<[championId |-> 2, role |-> role]>>

\* GGScraper._get_pool when the request succeeds
get_pool(operation, summoner, region, role) ==
    LET results == RemoteRows(ModeOf(operation), summoner, region, role)
    IN ListV([i \in 1..Len(results) |->
                ChampionSummary(from_id(results[i].championId), results[i].role)])

get_champion_pool(summoner, region, role) ==
    get_pool("LolProfilePageChampionsPoolQuery", summoner, region, role)

\* variant: the matchup query sent with the champion-pool operation
get_matchup_pool_wrong_op(summoner, region, role) ==
    get_pool("LolProfilePageChampionsPoolQuery", summoner, region, role)

get_matchup_pool(summoner, region, role) ==
    get_pool("LolProfilePageMatchupsPoolQuery", summoner, region, role)

(***************************************************************************)
(* scraper.py: GGScraper.inform                                            *)
(***************************************************************************)
\* the ten executor.submit calls in program order: the callable, the slot
\* whose name and region are passed, the role keyword, and the fs label
\* 'slot.pool' as split('.') takes it apart
\* variant: the first matchup line is an unedited copy of the first line
Submissions_copied ==
    << [fn |-> "get_champion_pool", slot |-> "top",     role |-> "TOP",     label |-> <<"top", "champion_pool">>],
       [fn |-> "get_champion_pool", slot |-> "jungle",  role |-> "JUNGLE",  label |-> <<"jungle", "champion_pool">>],
       [fn |-> "get_champion_pool", slot |-> "mid",     role |-> "MID",     label |-> <<"mid", "champion_pool">>],
       [fn |-> "get_champion_pool", slot |-> "adc",     role |-> "ADC",     label |-> <<"adc", "champion_pool">>],
       [fn |-> "get_champion_pool", slot |-> "support", role |-> "SUPPORT", label |-> <<"support", "champion_pool">>],
       [fn |-> "get_champion_pool", slot |-> "top",     role |-> "TOP",     label |-> <<"top", "champion_pool">>],
       [fn |-> "get_matchup_pool",  slot |-> "jungle",  role |-> "JUNGLE",  label |-> <<"jungle", "matchup_pool">>],
       [fn |-> "get_matchup_pool",  slot |-> "mid",     role |-> "MID",     label |-> <<"mid", "matchup_pool">>],
       [fn |-> "get_matchup_pool",  slot |-> "adc",     role |-> "ADC",     label |-> <<"adc", "matchup_pool">>],
       [fn |-> "get_matchup_pool",  slot |-> "support", role |-> "SUPPORT", label |-> <<"support", "matchup_pool">>] >>

Submissions ==
    << [fn |-> "get_champion_pool", slot |-> "top",     role |-> "TOP",     label |-> <<"top", "champion_pool">>],
       [fn |-> "get_champion_pool", slot |-> "jungle",  role |-> "JUNGLE",  label |-> <<"jungle", "champion_pool">>],
       [fn |-> "get_champion_pool", slot |-> "mid",     role |-> "MID",     label |-> <<"mid", "champion_pool">>],
       [fn |-> "get_champion_pool", slot |-> "adc",     role |-> "ADC",     label |-> <<"adc", "champion_pool">>],
       [fn |-> "get_champion_pool", slot |-> "support", role |-> "SUPPORT", label |-> <<"support", "champion_pool">>],
       [fn |-> "get_matchup_pool",  slot |-> "top",     role |-> "TOP",     label |-> <<"top", "matchup_pool">>],
       [fn |-> "get_matchup_pool",  slot |-> "jungle",  role |-> "JUNGLE",  label |-> <<"jungle", "matchup_pool">>],
       [fn |-> "get_matchup_pool",  slot |-> "mid",     role |-> "MID",     label |-> <<"mid", "matchup_pool">>],
       [fn |-> "get_matchup_pool",  slot |-> "adc",     role |-> "ADC",     label |-> <<"adc", "matchup_pool">>],
       [fn |-> "get_matchup_pool",  slot |-> "support", role |-> "SUPPORT", label |-> <<"support", "matchup_pool">>] >>

NumTasks == Len(Submissions)

Futures == 1..NumTasks

\* what the submitted callable returns when the remote call succeeds; the
\* name and the region are those of the slot, which never change
TaskResult(t, i) ==
    LET s == Submissions[i]
        summoner == t[s.slot]["name"].items[1].champion
        region == t[s.slot]["region"].items[1].champion
    IN IF s.fn = "get_champion_pool"
       THEN get_champion_pool(summoner, region, s.role)
       ELSE get_matchup_pool(summoner, region, s.role)

\* a future: NEW before its submit call, then PENDING, RUNNING, FINISHED;
\* raised tells whether the callable ended by an exception
NewFuture == [state |-> "NEW", raised |-> FALSE, result |-> NoneV]

Running == {i \in Futures : fut[i].state = "RUNNING"}

Settled == {i \in Futures : fut[i].state = "FINISHED"}

Failed == {i \in Futures : fut[i].state = "FINISHED" /\ fut[i].raised}

Succeeded == {i \in Futures : fut[i].state = "FINISHED" /\ ~fut[i].raised}

\* GGScraper._fetch: the result of a finished future, None if it raised
Fetch(f) == IF f.raised THEN NoneV ELSE f.result

\* variant: one thread per work item, whatever max_workers is
CanStart_unbounded(i) ==
    /\ fut[i].state = "PENDING"
    /\ \A j \in 1..(i - 1) : fut[j].state # "PENDING"

\* variant: one thread of the pool is never given work
CanStart_one_less(i) ==
    /\ fut[i].state = "PENDING"
    /\ \A j \in 1..(i - 1) : fut[j].state # "PENDING"
    /\ Cardinality(Running) < max_workers - 1

\* ThreadPoolExecutor(max_workers): a queued work item is taken, oldest
\* first, only while fewer than max_workers items are running
CanStart(i) ==
    /\ fut[i].state = "PENDING"
    /\ \A j \in 1..(i - 1) : fut[j].state # "PENDING"
    /\ Cardinality(Running) < max_workers

\* executor.submit(...) number nsub + 1, in the calling thread
Submit ==
    /\ pc = "submit"
    /\ nsub < NumTasks
    /\ fut' = [fut EXCEPT ![nsub + 1].state = "PENDING"]
    /\ nsub' = nsub + 1
    /\ pc' = IF nsub + 1 = NumTasks THEN "as_completed" ELSE "submit"
    /\ UNCHANGED <<team, max_workers, yielded, exc, outcome, info, call, auxVars>>

\* a pool thread takes work item i from the queue
Start(i) ==
    /\ CanStart(i)
    /\ fut' = [fut EXCEPT ![i].state = "RUNNING"]
    /\ UNCHANGED <<team, max_workers, pc, nsub, yielded, exc, outcome, info, call, auxVars>>

\* variant: the pool thread stores its result in the roster itself
FinishOk_writes(i) ==
    /\ fut[i].state = "RUNNING"
    /\ fut' = [fut EXCEPT ![i] = [state |-> "FINISHED", raised |-> FALSE,
                                  result |-> TaskResult(team, i)]]
    /\ team' = [team EXCEPT ![Submissions[i].label[1]] =
                   SetAttr(@, Submissions[i].label[2], TaskResult(team, i)).obj]
    /\ UNCHANGED <<max_workers, pc, nsub, yielded, exc, outcome, info, call, auxVars>>

\* the callable of work item i returns: the future holds its result
FinishOk(i) ==
    /\ fut[i].state = "RUNNING"
    /\ fut' = [fut EXCEPT ![i] = [state |-> "FINISHED", raised |-> FALSE,
                                  result |-> TaskResult(team, i)]]
    /\ UNCHANGED <<team, max_workers, pc, nsub, yielded, exc, outcome, info, call, auxVars>>

\* the callable of work item i raises: the future holds the exception
FinishFail(i) ==
    /\ fut[i].state = "RUNNING"
    /\ Cardinality(Failed) < MaxFailures
    /\ fut' = [fut EXCEPT ![i] = [state |-> "FINISHED", raised |-> TRUE,
                                  result |-> NoneV]]
    /\ UNCHANGED <<team, max_workers, pc, nsub, yielded, exc, outcome, info, call, auxVars>>

\* as_completed hands finished future i to the loop, whose body runs
\* setattr(getattr(team, role), pool, self._fetch(f)); an exception of the
\* body leaves the loop and the with block
LoopBody(i) ==
    /\ pc = "as_completed"
    /\ fut[i].state = "FINISHED"
    /\ i \notin yielded
    /\ LET role == Submissions[i].label[1]
           pool == Submissions[i].label[2]
           r == SetAttr(team[role], pool, Fetch(fut[i]))
       IN /\ team' = [team EXCEPT ![role] = r.obj]
          /\ exc' = r.exc
          /\ pc' = IF r.exc # "none" \/ yielded \cup {i} = Futures
                   THEN "shutdown" ELSE "as_completed"
    /\ yielded' = yielded \cup {i}
    /\ UNCHANGED <<max_workers, nsub, fut, outcome, info, call, auxVars>>

\* variant: shutdown(wait=False)
Shutdown_nowait ==
    /\ pc = "shutdown"
    /\ IF exc # "none"
       THEN /\ pc' = "done"
            /\ outcome' = [kind |-> "raise", value |-> exc]
       ELSE /\ pc' = "return"
            /\ outcome' = outcome
    /\ UNCHANGED <<team, max_workers, nsub, fut, yielded, exc, info, call, auxVars>>

\* ThreadPoolExecutor.__exit__: shutdown(wait=True) returns once every
\* queued work item has run; then the pending exception, if any, goes on to
\* the caller
Shutdown ==
    /\ pc = "shutdown"
    /\ Settled = Futures
    /\ IF exc # "none"
       THEN /\ pc' = "done"
            /\ outcome' = [kind |-> "raise", value |-> exc]
       ELSE /\ pc' = "return"
            /\ outcome' = outcome
    /\ UNCHANGED <<team, max_workers, nsub, fut, yielded, exc, info, call, auxVars>>

\* return all(info for info in team)
Return ==
    /\ pc = "return"
    /\ LET b == AllInfo(team)
       IN outcome' = IF b \in {"True", "False"}
                     THEN [kind |-> "return", value |-> b]
                     ELSE [kind |-> "raise", value |-> b]
    /\ pc' = "done"
    /\ UNCHANGED <<team, max_workers, nsub, fut, yielded, exc, info, call, auxVars>>

NoCall == [attr |-> "none", value |-> Absent, exc |-> "none"]

\* a thread that has not entered __setattr__ yet
IdleWriter == [pc |-> "idle", attr |-> "none", value |-> Absent, exc |-> "none"]

WriterThreads == {1, 2}

\* the pool threads of one executor, of which max_workers exist
PoolThreads == 1..MaxWorkers

\* the scraper and the threads before inform is called
InitRest ==
    /\ max_workers \in 1..MaxWorkers
    /\ pc = "submit"
    /\ nsub = 0
    /\ fut = [i \in Futures |-> NewFuture]
    /\ yielded = {}
    /\ exc = "none"
    /\ outcome = [kind |-> "none", value |-> "none"]
    /\ info = NewInfo("NA", "kal1brate")
    /\ call = NoCall
    /\ writers = [t \in WriterThreads |-> IdleWriter]
    /\ df = [loaded |-> FALSE, loads |-> 0]
    /\ readers = [t \in PoolThreads |-> [pc |-> "idle", n |-> 0]]

\* main.py: a fresh Composition handed to inform
Init ==
    /\ team = NewComposition("NA", AllyNames)
    /\ InitRest

Next ==
    \/ Submit
    \/ \E i \in Futures : Start(i)
    \/ \E i \in Futures : FinishOk(i)
    \/ \E i \in Futures : FinishFail(i)
    \/ \E i \in Futures : LoopBody(i)
    \/ Shutdown
    \/ Return

Spec == Init /\ [][Next]_vars

\* the same runs under fair scheduling: while some thread can take a step
\* (a remote call that is under way returns or raises, a thread that is
\* ready runs), a step is eventually taken
SpecLive == Init /\ [][Next]_vars /\ WF_vars(Next)

(***************************************************************************)
(* inform called on a Composition some of whose pools were assigned        *)
(* before the call.                                                        *)
(***************************************************************************)
\* the pools assigned beforehand and the values they were given, none of
\* which the remote returns for that pool
PresetFields == {<<"top", "champion_pool">>, <<"mid", "matchup_pool">>}

PresetValue(fld) ==
    IF fld = <<"top", "champion_pool">>
    THEN ListV(<<ChampionSummary("Ahri", "TOP")>>)
    ELSE ListV(<<>>)

\* setattr(getattr(team, role), pool, value) for every pool of set
PresetTeam(set) ==
    [r \in Roles |->
        LET one == SetAttr(NewInfo("NA", AllyNames[r]), "champion_pool",
                           PresetValue(<<r, "champion_pool">>)).obj
            cp == IF <<r, "champion_pool">> \in set
                  THEN one ELSE NewInfo("NA", AllyNames[r])
        IN IF <<r, "matchup_pool">> \in set
           THEN SetAttr(cp, "matchup_pool", PresetValue(<<r, "matchup_pool">>)).obj
           ELSE cp]

\* the roster handed to inform is fresh or has the pools of PresetFields
\* set; two pool threads, the smallest pool in which fetches overlap (all
\* assignments are made by the calling thread)
InitPartial ==
    /\ team \in {PresetTeam(set) : set \in {{}, PresetFields}}
    /\ InitRest
    /\ max_workers = 2

SpecPartial == InitPartial /\ [][Next]_vars

(***************************************************************************)
(* Record-layer runs: arbitrary attribute assignments on one               *)
(* SummonerInformation, info.attr = value.                                 *)
(***************************************************************************)
Elements ==
    {ChampionSummary("Aatrox", "TOP"), ChampionSummary("Ahri", "MID"),
     StrItem("not-a-summary")}

\* values assigned: None, the empty string, a string, and every list of at
\* most MaxItems elements
InputValues ==
    {NoneV, [kind |-> "str", items |-> <<>>], StrV("NA")}
        \cup {ListV(s) : s \in UNION {[1..k -> Elements] : k \in 0..MaxItems}}

\* info.attr = value, i.e. SummonerInformation.__setattr__(info, attr, value)
SetAttrCall(attr, value) ==
    /\ LET r == SetAttr(info, attr, value)
       IN /\ info' = r.obj
          /\ call' = [attr |-> attr, value |-> value, exc |-> r.exc]
    /\ UNCHANGED <<enrichVars, auxVars>>

\* the bool objects
BoolV(b) == [kind |-> b, items |-> <<>>]

\* bool(info), i.e. SummonerInformation.__bool__(info): the value returned,
\* or the exception raised
BoolCall ==
    /\ LET b == InfoBool(info)
       IN call' = IF b \in {"True", "False"}
                  THEN [attr |-> "__bool__", value |-> BoolV(b), exc |-> "none"]
                  ELSE [attr |-> "__bool__", value |-> Absent, exc |-> b]
    /\ UNCHANGED <<enrichVars, info, auxVars>>

NextRecord ==
    \/ \E attr \in Slots, value \in InputValues : SetAttrCall(attr, value)
    \/ BoolCall

\* no scraper takes part in these runs: one setting of max_workers is enough
InitRecord == Init /\ max_workers = 1

SpecRecord == InitRecord /\ [][NextRecord]_vars

(***************************************************************************)
(* Two threads assigning attributes of the same SummonerInformation.       *)
(* __setattr__ is plain Python: the interpreter may switch threads between *)
(* its hasattr test, its content check and its store.                      *)
(***************************************************************************)
RaceValues ==
    {ListV(<<ChampionSummary("Aatrox", "TOP")>>),
     ListV(<<ChampionSummary("Ahri", "MID")>>), NoneV}

\* thread t enters info.attr = value
WEnter(t, attr, value) ==
    /\ writers[t].pc = "idle"
    /\ writers' = [writers EXCEPT ![t] =
                      [pc |-> "hasattr", attr |-> attr, value |-> value, exc |-> "none"]]
    /\ UNCHANGED <<enrichVars, info, call, df, readers>>

\* if hasattr(self, attr): raise TypeError
WCheck(t) ==
    /\ writers[t].pc = "hasattr"
    /\ writers' = [writers EXCEPT ![t] =
                      IF hasattr(info, writers[t].attr)
                      THEN [@ EXCEPT !.pc = "done", !.exc = "TypeError"]
                      ELSE [@ EXCEPT !.pc = "check"]]
    /\ UNCHANGED <<enrichVars, info, call, df, readers>>

\* the content check of the pools
WValidate(t) ==
    /\ writers[t].pc = "check"
    /\ writers' = [writers EXCEPT ![t] =
                      IF writers[t].attr \in Pools /\ ~SummaryCheck(writers[t].value)
                      THEN [@ EXCEPT !.pc = "done", !.exc = "TypeError"]
                      ELSE [@ EXCEPT !.pc = "store"]]
    /\ UNCHANGED <<enrichVars, info, call, df, readers>>

\* super().__setattr__(attr, value)
WStore(t) ==
    /\ writers[t].pc = "store"
    /\ info' = [info EXCEPT ![writers[t].attr] = writers[t].value]
    /\ writers' = [writers EXCEPT ![t].pc = "done"]
    /\ UNCHANGED <<enrichVars, call, df, readers>>

NextRace ==
    \/ \E t \in WriterThreads, attr \in Pools, value \in RaceValues : WEnter(t, attr, value)
    \/ \E t \in WriterThreads : WCheck(t)
    \/ \E t \in WriterThreads : WValidate(t)
    \/ \E t \in WriterThreads : WStore(t)

SpecRace == InitRecord /\ [][NextRace]_vars

(***************************************************************************)
(* Arbitrary attribute assignments on the entities of a Composition, the   *)
(* only way inform or any caller changes them.                             *)
(***************************************************************************)
RosterValues == {StrV("EUW"), ListV(<<>>), NoneV}

\* setattr(getattr(team, role), attr, value)
TeamSetAttr(role, attr, value) ==
    /\ LET r == SetAttr(team[role], attr, value)
       IN /\ team' = [team EXCEPT ![role] = r.obj]
          /\ call' = [attr |-> attr, value |-> value, exc |-> r.exc]
    /\ UNCHANGED <<max_workers, pc, nsub, fut, yielded, exc, outcome, info, auxVars>>

NextRoster ==
    \E role \in Roles, attr \in Slots, value \in RosterValues :
        TeamSetAttr(role, attr, value)

SpecRoster == InitRecord /\ [][NextRoster]_vars

(***************************************************************************)
(* scraper.py: the df property, evaluated by the pool threads of one       *)
(* scraper (from_id evaluates it twice for every row of a response).       *)
(* Nothing guards it: a thread can be switched out between the hasattr     *)
(* test, the request and the assignment of self._df.                       *)
(***************************************************************************)
\* if not hasattr(self, '_df'): otherwise return self._df
DfCheck(t) ==
    /\ t <= max_workers
    /\ readers[t].pc = "idle"
    /\ readers[t].n < MaxLookups
    /\ readers' = [readers EXCEPT ![t] =
                      IF df.loaded
                      THEN [@ EXCEPT !.n = @ + 1]
                      ELSE [@ EXCEPT !.pc = "post"]]
    /\ UNCHANGED <<enrichVars, info, call, writers, df>>

\* resp = _requests.post(url, ...): one load of the table from the remote
DfPost(t) ==
    /\ readers[t].pc = "post"
    /\ df' = [df EXCEPT !.loads = @ + 1]
    /\ readers' = [readers EXCEPT ![t].pc = "assign"]
    /\ UNCHANGED <<enrichVars, info, call, writers>>

\* self._df = df; return self._df
DfAssign(t) ==
    /\ readers[t].pc = "assign"
    /\ df' = [df EXCEPT !.loaded = TRUE]
    /\ readers' = [readers EXCEPT ![t] = [pc |-> "idle", n |-> @.n + 1]]
    /\ UNCHANGED <<enrichVars, info, call, writers>>

NextDf ==
    \/ \E t \in PoolThreads : DfCheck(t)
    \/ \E t \in PoolThreads : DfPost(t)
    \/ \E t \in PoolThreads : DfAssign(t)

SpecDf == Init /\ [][NextDf]_vars

(***************************************************************************)
(* Reference values for the properties.                                    *)
(***************************************************************************)
RoleKeyword ==
    [top |-> "TOP", jungle |-> "JUNGLE", mid |-> "MID", adc |-> "ADC",
     support |-> "SUPPORT"]

\* what the remote answers for a slot and a category of the roster built
\* in Init
Expected(slot, pool) ==
    get_pool(IF pool = "champion_pool" THEN "LolProfilePageChampionsPoolQuery"
                                       ELSE "LolProfilePageMatchupsPoolQuery",
             AllyNames[slot], "NA", RoleKeyword[slot])

\* the future whose callable fetches a slot's category
TaskOf(slot, pool) ==
    CHOOSE i \in Futures :
        /\ Submissions[i].slot = slot
        /\ Submissions[i].fn = (IF pool = "champion_pool" THEN "get_champion_pool"
                                                        ELSE "get_matchup_pool")

Fields == Roles \X Pools

\* a slot that holds a value
Present(obj, attr) == obj[attr] # Absent

IsSet(fld) == Present(team[fld[1]], fld[2])

Returned(b) == pc = "done" /\ outcome = [kind |-> "return", value |-> b]

\* the roster and the outcome of the run that handles the futures in
\* submission order, for a given set of failing calls
RECURSIVE SerialRun(_, _, _)
SerialRun(t, i, failing) ==
    IF i > NumTasks
    THEN [team |-> t, exc |-> "none"]
    ELSE LET role == Submissions[i].label[1]
             pool == Submissions[i].label[2]
             f == IF i \in failing
                  THEN [state |-> "FINISHED", raised |-> TRUE, result |-> NoneV]
                  ELSE [state |-> "FINISHED", raised |-> FALSE, result |-> TaskResult(t, i)]
             r == SetAttr(t[role], pool, Fetch(f))
         IN IF r.exc # "none"
            THEN [team |-> t, exc |-> r.exc]
            ELSE SerialRun([t EXCEPT ![role] = r.obj], i + 1, failing)

SerialOutcome(failing) ==
    LET run == SerialRun(NewComposition("NA", AllyNames), 1, failing)
        b == AllInfo(run.team)
    IN IF run.exc # "none" THEN [kind |-> "raise", value |-> run.exc]
       ELSE IF b \in {"True", "False"} THEN [kind |-> "return", value |-> b]
       ELSE [kind |-> "raise", value |-> b]

(***************************************************************************)
(* Properties of inform, checked under Spec.                               *)
(***************************************************************************)
\* C1: inform returns False in every run in which at least one of the ten
\* fetches failed, and returns True only when all ten fields are set.
C1_FalseOnFailure ==
    pc = "done" =>
        /\ (Failed # {} => Returned("False"))
        /\ (Returned("True") => \A fld \in Fields : IsSet(fld))

\* C2: when all ten fetches succeed, inform returns True and every field
\* holds exactly the remote's answer for its own slot and category.
C2_AllSucceed ==
    (pc = "done" /\ Failed = {}) =>
        /\ Returned("True")
        /\ \A fld \in Fields : team[fld[1]][fld[2]] = Expected(fld[1], fld[2])

C2_Witness ==
    /\ pc = "done"
    /\ Failed = {}
    /\ max_workers = MaxWorkers
    /\ team["support"]["matchup_pool"] = ListV(<<>>)
    /\ team["mid"]["champion_pool"]
         = ListV(<<ChampionSummary("Aatrox", "MID"), ChampionSummary("Akali", "MID")>>)

\* C3: inform always ends by returning a boolean, never by raising.
C3_NeverRaises == pc = "done" => outcome.kind = "return"

\* C4: when exactly one fetch fails, the other nine fields end up set to
\* the values a fully successful run stores.
C4_OtherNineSet ==
    (pc = "done" /\ Cardinality(Failed) = 1) =>
        \A fld \in Fields :
            TaskOf(fld[1], fld[2]) \notin Failed =>
                team[fld[1]][fld[2]] = Expected(fld[1], fld[2])

\* C5: at every point of a run a field is set only if the fetch for its
\* slot and category has succeeded, and a set field never holds None.
C5_SetOnlyOnSuccess ==
    \A fld \in Fields :
        IsSet(fld) =>
            /\ TaskOf(fld[1], fld[2]) \in Succeeded
            /\ team[fld[1]][fld[2]].kind = "list"

C5_Witness ==
    /\ pc = "done"
    /\ \E i \in Failed : i \in yielded /\ ~IsSet(Submissions[i].label)
    /\ \E fld \in Fields : IsSet(fld)

\* C6: control leaves inform, by return or by exception, only after all
\* ten futures have finished.
C6_LeavesAfterAllSettled == pc \in {"return", "done"} => Settled = Futures

C6_Witness ==
    /\ pc = "done"
    /\ outcome.kind = "raise"
    /\ yielded # Futures
    /\ Succeeded \ yielded # {}

\* C7: the number of running fetches never exceeds max_workers.
C7_BoundedInFlight == Cardinality(Running) <= max_workers

C7_Witness ==
    /\ max_workers = MaxWorkers
    /\ Cardinality(Running) = max_workers
    /\ \E i \in Futures : fut[i].state = "PENDING"
    /\ Settled # {}

\* C8: the final roster and the outcome depend only on which calls fail:
\* they are those of the run that handles the futures in submission order,
\* for every max_workers and every completion order.
C8_OrderIndependent ==
    pc = "done" =>
        /\ team = SerialRun(NewComposition("NA", AllyNames), 1, Failed).team
        /\ outcome = SerialOutcome(Failed)

(***************************************************************************)
(* Properties of SummonerInformation, checked under SpecRecord.            *)
(***************************************************************************)
\* an iterable all of whose elements are ChampionSummary tuples
OnlySummaries(value) ==
    /\ value.kind \in {"list", "str"}
    /\ ~\E k \in 1..Len(value.items) : value.items[k].type # "ChampionSummary"

\* C9: once champion_pool or matchup_pool is set, also to an empty list,
\* every later assignment to it raises and the field keeps its value.
C9_WriteOnce ==
    [][\A a \in Pools :
         Present(info, a) =>
            /\ info'[a] = info[a]
            /\ (call'.attr = a => call'.exc = "TypeError")]_vars

C9_Witness ==
    /\ info["champion_pool"] = ListV(<<>>)
    /\ call = [attr |-> "champion_pool",
               value |-> ListV(<<ChampionSummary("Aatrox", "TOP")>>),
               exc |-> "TypeError"]

\* C10: assigning an unset pool a value that is not entirely
\* ChampionSummary elements raises and leaves it unset, assigning it a
\* valid value stores that value, and a set pool holds only
\* ChampionSummary elements.
C10_TypeGuard ==
    [][\A a \in Pools :
         /\ (~Present(info, a) /\ call'.attr = a) =>
               IF OnlySummaries(call'.value)
               THEN call'.exc = "none" /\ info'[a] = call'.value
               ELSE call'.exc = "TypeError" /\ ~Present(info', a)
         /\ (Present(info', a) => OnlySummaries(info'[a]))]_vars

C10_Witness ==
    /\ ~Present(info, "champion_pool")
    /\ Present(info, "matchup_pool")
    /\ call = [attr |-> "champion_pool",
               value |-> ListV(<<ChampionSummary("Aatrox", "TOP"),
                                 StrItem("not-a-summary")>>),
               exc |-> "TypeError"]

\* C11: bool(info) returns True when both pools are set, also to empty
\* lists, and returns False, without raising, when one of them is unset.
C11_BoolTotal ==
    call.attr = "__bool__" =>
        /\ call.exc = "none"
        /\ call.value = BoolV(IF Present(info, "champion_pool")
                                 /\ Present(info, "matchup_pool")
                              THEN "True" ELSE "False")

(***************************************************************************)
(* Properties of inform on a partially assigned roster, under SpecPartial. *)
(***************************************************************************)
\* C12: a pool that is set keeps its value through every step of inform,
\* so a pool set before the call holds the same value after it.
C12_SetFieldsUntouched ==
    [][\A fld \in Fields :
         IsSet(fld) => team'[fld[1]][fld[2]] = team[fld[1]][fld[2]]]_vars

C12_Witness ==
    /\ pc = "done"
    /\ team["top"]["champion_pool"] = PresetValue(<<"top", "champion_pool">>)
    /\ team["mid"]["matchup_pool"] = PresetValue(<<"mid", "matchup_pool">>)
    /\ TaskOf("top", "champion_pool") \in Succeeded \cap yielded
    /\ \E fld \in Fields \ PresetFields : IsSet(fld)

(***************************************************************************)
(* Properties of concurrent assignments, checked under SpecRace.           *)
(***************************************************************************)
\* C13: when two threads assign valid values to the same unset pool, exactly
\* one of the two assignments succeeds and the other raises.
C13_AtomicCheckAndSet ==
    (/\ \A t \in WriterThreads : writers[t].pc = "done"
     /\ writers[1].attr = writers[2].attr
     /\ \A t \in WriterThreads : OnlySummaries(writers[t].value))
        => Cardinality({t \in WriterThreads : writers[t].exc = "none"}) = 1

(***************************************************************************)
(* Properties of the roster's identity, checked under SpecRoster.          *)
(***************************************************************************)
\* C14: every assignment to region or name of a constructed entity raises,
\* and no assignment changes the region or the name of any entity.
C14_IdentityFixed ==
    [][/\ call'.attr \in {"region", "name"} => call'.exc = "TypeError"
       /\ \A r \in Roles :
            /\ team'[r]["region"] = team[r]["region"]
            /\ team'[r]["name"] = team[r]["name"]
            /\ team'[r]["region"] = StrV("NA")
            /\ team'[r]["name"] = StrV(AllyNames[r])]_vars

C14_Witness ==
    /\ call = [attr |-> "name", value |-> StrV("EUW"), exc |-> "TypeError"]
    /\ \E r \in Roles : Present(team[r], "champion_pool")
    /\ \A r \in Roles : team[r]["name"] = StrV(AllyNames[r])

(***************************************************************************)
(* Further properties of inform, checked under Spec.                       *)
(***************************************************************************)
\* the pool a callable fetches
PoolOf(fn) == IF fn = "get_champion_pool" THEN "champion_pool" ELSE "matchup_pool"

\* the field each submitted callable fetches
FetchedField ==
    [i \in Futures |-> <<Submissions[i].slot, PoolOf(Submissions[i].fn)>>]

\* the submit calls, as written: every (role, category) pair is fetched by
\* exactly one of them, with the role keyword of its slot, and is the fs
\* label of exactly one of them
OnePerField ==
    \A fld \in Fields :
        /\ Cardinality({i \in Futures :
                          /\ FetchedField[i] = fld
                          /\ RoleKeyword[Submissions[i].slot] = Submissions[i].role}) = 1
        /\ Cardinality({i \in Futures : Submissions[i].label = fld}) = 1

\* the assignments to a field attempted so far
WriteAttempts(fld) == {i \in yielded : Submissions[i].label = fld}

\* C15: a run submits exactly ten fetches, one for each of the ten
\* (role, category) pairs, and attempts at most one assignment per field:
\* the futures that exist are the first nsub of the ten submit calls, all
\* ten once the submit phase is over, and the loop has handled only
\* finished ones.
C15_TenTasksOnePerField ==
    /\ OnePerField
    /\ \A i \in Futures : (fut[i].state # "NEW") <=> (i <= nsub)
    /\ pc # "submit" => nsub = 10
    /\ yielded \subseteq Settled

C15_Witness ==
    /\ pc = "done"
    /\ yielded = Futures
    /\ \A fld \in Fields : Cardinality(WriteAttempts(fld)) = 1

\* C17: the roster changes only in a step of the thread that called inform,
\* inside its as_completed loop, for one future that has already finished,
\* and only in the pool that future is labelled with.
C17_WritesByCallerOnly ==
    [][team' # team =>
         /\ pc = "as_completed"
         /\ fut' = fut
         /\ \E i \in Futures :
              /\ fut[i].state = "FINISHED"
              /\ yielded' = yielded \cup {i}
              /\ i \notin yielded
              /\ \A fld \in Fields :
                   fld # Submissions[i].label =>
                      team'[fld[1]][fld[2]] = team[fld[1]][fld[2]]]_vars

C17_Witness ==
    /\ pc = "as_completed"
    /\ Cardinality(Running) = 2
    /\ Cardinality({fld \in Fields : IsSet(fld)}) >= 2

C16_EventuallyDone == <>(pc = "done" /\ Settled = Futures)

C16_Witness ==
    /\ max_workers = 1
    /\ pc = "done"
    /\ Settled = Futures
    /\ yielded = Futures

(***************************************************************************)
(* Properties of the df property, checked under SpecDf.                    *)
(***************************************************************************)
\* C18: the champion table is loaded from the remote at most once for one
\* scraper, however many pool threads consult it.
C18_LoadedAtMostOnce == df.loads <= 1

====
